---- MODULE Spec2Model ----
(***************************************************************************)
(* FootballScoutPro: the player analytics and recommendation engine.       *)
(* DataProcessor (src/models/data_processor.py), PlayerRecommender         *)
(* (src/models/recommender.py) and the MainController handlers that wire   *)
(* them (src/controllers/main_controller.py), as one state machine.        *)
(***************************************************************************)
EXTENDS Integers, Sequences, FiniteSets, TLC

(***************************************************************************)
(* Bounds of the model.                                                    *)
(***************************************************************************)
\* data loads (on_data_fetched / set_data) in one behaviour
MaxLoads == 2
\* largest n_recommendations a query is issued with
MaxRecs == 2

(***************************************************************************)
(* Cell values of a DataFrame and leaves of the raw JSON.  A number is the *)
(* rational n/d (d > 0, lowest terms); "inf" carries its sign in n.        *)
(***************************************************************************)
None == [k |-> "none", n |-> 0, d |-> 1, s |-> ""]
NaN == [k |-> "nan", n |-> 0, d |-> 1, s |-> ""]
Num(i) == [k |-> "num", n |-> i, d |-> 1, s |-> ""]
Str(t) == [k |-> "str", n |-> 0, d |-> 1, s |-> t]
Inf(sign) == [k |-> "inf", n |-> sign, d |-> 1, s |-> ""]

Abs(i) == IF i < 0 THEN -i ELSE i

RECURSIVE GCD(_, _)
GCD(a, b) == IF b = 0 THEN a ELSE GCD(b, a % b)

\* the rational a/b in lowest terms, b > 0
Rat(a, b) ==
    LET g == GCD(Abs(a), b)
    IN [k |-> "num", n |-> a \div g, d |-> b \div g, s |-> ""]

IsNum(c) == c.k = "num"
\* a missing value as pandas sees it: None in an object column, NaN in a float column
IsNA(c) == c.k \in {"none", "nan"}
\* a value a float column can hold
IsFloat(c) == c.k \in {"num", "nan", "inf"}

\* float division x / y of two numeric cells (numpy semantics: x/0 is +-inf, 0/0 is NaN)
Divide(x, y) ==
    IF ~IsNum(x) \/ ~IsNum(y) THEN NaN
    ELSE IF y.n = 0 THEN (IF x.n = 0 THEN NaN ELSE Inf(IF x.n > 0 THEN 1 ELSE -1))
    ELSE IF y.n > 0 THEN Rat(x.n * y.d, x.d * y.n)
    ELSE Rat(-(x.n * y.d), x.d * (-y.n))

Times(x, i) == IF IsNum(x) THEN Rat(x.n * i, x.d) ELSE x

\* x >= y on float cells; a comparison with NaN is False
GE(x, y) ==
    /\ x.k \in {"num", "inf"} /\ y.k \in {"num", "inf"}
    /\ IF x.k = "inf" THEN x.n > 0 \/ (y.k = "inf" /\ y.n < 0)
       ELSE IF y.k = "inf" THEN y.n < 0
       ELSE x.n * y.d >= y.n * x.d
LE(x, y) == GE(y, x)
GT(x, y) == GE(x, y) /\ ~GE(y, x)

(***************************************************************************)
(* dict.get(key) and dict.get(key, {}) on a raw JSON object.               *)
(***************************************************************************)
Get(rec, key) == IF key \in DOMAIN rec THEN rec[key] ELSE None
GetDict(rec, key) == IF key \in DOMAIN rec THEN rec[key] ELSE <<>>

(***************************************************************************)
(* A DataFrame: its column names and its rows in order, each row a         *)
(* function from the column names to cells.                                *)
(***************************************************************************)
\* a function given by its constructor, as the table of its values
Eager(f) == f @@ <<>>

\* F applied to the value of x, which is computed once whatever the uses F makes
\* of it
Bind(x, F(_)) == CHOOSE y \in {F(v) : v \in {x}} : TRUE

DataFrame(cols, rows) == [cols |-> cols, rows |-> rows]
EmptyFrame == DataFrame({}, <<>>)

Indices(df) == 1..Len(df.rows)

\* df[col] = values : the column is added or overwritten in place
SetColumn(df, col, values) ==
    DataFrame(df.cols \cup {col},
              Eager([i \in Indices(df) |->
                  Eager([c \in df.cols \cup {col} |->
                      IF c = col THEN values[i] ELSE df.rows[i][c]])]))

\* df[columns]
Project(df, cols) ==
    DataFrame(cols, Eager([i \in Indices(df) |-> Eager([c \in cols |-> df.rows[i][c]])]))

\* a column pandas holds with a numeric dtype (select_dtypes(include=[np.number]))
NumericCol(df, col) == \A i \in Indices(df) : IsFloat(df.rows[i][col])


(***************************************************************************)
(* DataProcessor (src/models/data_processor.py)                            *)
(***************************************************************************)
\* the dictionary appended for one (player, statistics block) pair
Record(player_info, stat) ==
    LET team == GetDict(stat, "team")
        league == GetDict(stat, "league")
        games == GetDict(stat, "games")
        shots == GetDict(stat, "shots")
        goals == GetDict(stat, "goals")
        passes == GetDict(stat, "passes")
        tackles == GetDict(stat, "tackles")
        duels == GetDict(stat, "duels")
    IN [player_id |-> Get(player_info, "id"),
        name |-> Get(player_info, "name"),
        firstname |-> Get(player_info, "firstname"),
        lastname |-> Get(player_info, "lastname"),
        age |-> Get(player_info, "age"),
        nationality |-> Get(player_info, "nationality"),
        height |-> Get(player_info, "height"),
        weight |-> Get(player_info, "weight"),
        position |-> Get(player_info, "position"),
        team_id |-> Get(team, "id"),
        team_name |-> Get(team, "name"),
        league_id |-> Get(league, "id"),
        league_name |-> Get(league, "name"),
        appearances |-> Get(games, "appearances"),
        minutes_played |-> Get(games, "minutes"),
        rating |-> Get(games, "rating"),
        shots_total |-> Get(shots, "total"),
        shots_on_target |-> Get(shots, "on"),
        goals_total |-> Get(goals, "total"),
        assists |-> Get(goals, "assists"),
        passes_total |-> Get(passes, "total"),
        passes_accuracy |-> Get(passes, "accuracy"),
        tackles_total |-> Get(tackles, "total"),
        tackles_blocks |-> Get(tackles, "blocks"),
        tackles_interceptions |-> Get(tackles, "interceptions"),
        duels_total |-> Get(duels, "total"),
        duels_won |-> Get(duels, "won")]

\* an inner loop that stops after the first statistics block of the player
FirstStintOnly(player_info, stats) ==
    IF stats = <<>> THEN <<>> ELSE <<Record(player_info, Head(stats))>>

\* the inner loop: one record per statistics block of one player
RECURSIVE StatRecords(_, _)
StatRecords(player_info, stats) ==
    IF stats = <<>> THEN <<>>
    ELSE <<Record(player_info, Head(stats))>> \o StatRecords(player_info, Tail(stats))

\* the outer loop: processed_data, in input order
RECURSIVE ProcessedData(_)
ProcessedData(players) ==
    IF players = <<>> THEN <<>>
    ELSE StatRecords(GetDict(Head(players), "player"), GetDict(Head(players), "statistics"))
         \o ProcessedData(Tail(players))

\* pd.DataFrame(processed_data): the columns are the keys of the dictionaries (none
\* for an empty list); a column holding a number becomes a float column, its None NaN
NewDataFrame(records) ==
    IF records = <<>> THEN EmptyFrame
    ELSE LET cols == DOMAIN records[1]
             HasNumber(c) == \E i \in 1..Len(records) : IsNum(records[i][c])
             OnlyFloat(c) == \A i \in 1..Len(records) : records[i][c].k \in {"num", "none"}
         IN DataFrame(cols,
                Eager([i \in 1..Len(records) |->
                    Eager([c \in cols |->
                        IF HasNumber(c) /\ OnlyFloat(c) /\ records[i][c] = None
                        THEN NaN ELSE records[i][c]])]))

\* handle_missing_values: numeric columns fillna(0), object columns fillna('')
handle_missing_values(df) ==
    DataFrame(df.cols,
        Eager([i \in Indices(df) |->
            Eager([c \in df.cols |->
                IF ~IsNA(df.rows[i][c]) THEN df.rows[i][c]
                ELSE IF NumericCol(df, c) THEN Num(0) ELSE Str("")])]))

Column(df, col) == Eager([i \in Indices(df) |-> df.rows[i][col]])

\* a Series on which arithmetic and ordering with numbers work: present and numeric
Arithmetic(df, col) == col \in df.cols /\ NumericCol(df, col)

\* np.where(df[den] > 0, df[num] / df[den] * 100, 0)
RateColumn(df, num, den) ==
    Eager([i \in Indices(df) |->
        IF GT(df.rows[i][den], Num(0))
        THEN Times(Divide(df.rows[i][num], df.rows[i][den]), 100)
        ELSE Num(0)])

\* a clean-up that leaves the infinite values in
KeepInf(df) == df

\* df.replace([np.inf, -np.inf], np.nan, inplace=True)
ReplaceInf(df) ==
    DataFrame(df.cols,
        Eager([i \in Indices(df) |->
            Eager([c \in df.cols |->
                IF df.rows[i][c].k = "inf" THEN NaN ELSE df.rows[i][c]])]))

\* calculate_player_metrics(df) on a given frame, which it changes in place:
\* [df |-> the frame afterwards (also the value returned), error |-> whether
\* processing_error was emitted].  A statement that raises leaves the columns
\* assigned before it in the frame.
calculate_player_metrics(df) ==
    IF ~(Arithmetic(df, "minutes_played") /\ Arithmetic(df, "appearances"))
    THEN [df |-> df, error |-> TRUE]
    ELSE
    LET df1 == SetColumn(df, "minutes_per_appearance",
                   Eager([i \in Indices(df) |->
                       Divide(df.rows[i]["minutes_played"], df.rows[i]["appearances"])]))
    IN  IF "passes_accuracy" \notin df1.cols THEN [df |-> df1, error |-> TRUE]
        ELSE
        LET df2 == SetColumn(df1, "pass_completion_rate", Column(df1, "passes_accuracy"))
        IN  IF ~(Arithmetic(df2, "shots_total") /\ Arithmetic(df2, "goals_total"))
            THEN [df |-> df2, error |-> TRUE]
            ELSE
            LET df3 == SetColumn(df2, "shot_conversion_rate",
                           RateColumn(df2, "goals_total", "shots_total"))
            IN  IF ~(Arithmetic(df3, "duels_total") /\ Arithmetic(df3, "duels_won"))
                THEN [df |-> df3, error |-> TRUE]
                ELSE
                LET df4 == SetColumn(df3, "duels_success_rate",
                               RateColumn(df3, "duels_won", "duels_total"))
                IN  [df |-> handle_missing_values(ReplaceInf(df4)), error |-> FALSE]

(***************************************************************************)
(* The data the environment loads.                                         *)
(***************************************************************************)
\* one statistics block of the API response
Block(appearances, minutes, rating, total, won) ==
    [team |-> [id |-> Num(1), name |-> Str("FC")],
     league |-> [id |-> Num(1), name |-> Str("L1")],
     games |-> [appearances |-> Num(appearances), minutes |-> Num(minutes),
                rating |-> Num(rating)],
     shots |-> [total |-> Num(total), on |-> Num(won)],
     goals |-> [total |-> Num(won), assists |-> Num(0)],
     passes |-> [total |-> Num(total), accuracy |-> Num(total)],
     tackles |-> [total |-> Num(total), blocks |-> Num(0), interceptions |-> Num(0)],
     duels |-> [total |-> Num(total), won |-> Num(won)]]

\* a statistics block without most of its nested objects
SparseBlock == [games |-> [appearances |-> Num(1)]]

Player(id, position, age, statistics) ==
    [player |-> [id |-> Num(id), name |-> Str("N"), age |-> Num(age),
                 position |-> Str(position)],
     statistics |-> statistics]

\* the raw entries: a player with two stints, a player whose single stint has
\* the statistics (and the age) of the first stint of that one, a player with no
\* statistics block and a player whose block is sparse
TwoStints == Player(1, "Defender", 20, <<Block(2, 3, 7, 2, 1), Block(1, 1, 8, 0, 0)>>)
SameStint == Player(2, "Forward", 20, <<Block(2, 3, 7, 2, 1)>>)
NoStint == Player(3, "Forward", 21, <<>>)
SparseStint == Player(4, "Defender", 23, <<SparseBlock>>)

\* data['response'] of the API responses
RawResponses ==
    {<<>>, <<NoStint>>, <<TwoStints, SameStint>>, <<SameStint, SparseStint>>,
     <<SparseStint>>}

\* the table process_players_data builds from a response
Processed(players) == handle_missing_values(NewDataFrame(ProcessedData(players)))

\* update_dashboard(processed_data) of on_data_processed: nothing for an empty
\* frame, else calculate_player_metrics on the frame itself (the views that
\* follow only read the frame)
update_dashboard(processed) ==
    IF Len(processed.rows) = 0
    THEN [df |-> processed, error |-> FALSE]
    ELSE calculate_player_metrics(processed)

\* the frame of every non-empty response after process_players_data and
\* update_dashboard, computed once
Loaded == [data \in RawResponses \ {<<>>} |-> update_dashboard(Processed(data))]

\* the endpoints fetch_data is called with: get_top_players, get_player_details
\* and one that mock_data_response does not know
Endpoints == {"/players/topscorers", "/players", "/teams"}

\* generate_mock_top_players: every player with one full statistics block, the
\* positions drawn at random (two players stand for the twenty)
generate_mock_top_players ==
    {<<Player(1, p1, 20, <<Block(2, 3, 7, 2, 1)>>),
       Player(2, p2, 22, <<Block(1, 2, 6, 1, 1)>>)>> : p1, p2 \in {"Forward", "Defender"}}

\* generate_mock_player_details: the first of the top players
generate_mock_player_details == {SubSeq(top, 1, 1) : top \in generate_mock_top_players}

\* data['response'] that mock_data_response builds for an endpoint
mock_data(endpoint) ==
    IF endpoint = "/players/topscorers" THEN generate_mock_top_players
    ELSE IF endpoint = "/players" THEN generate_mock_player_details
    ELSE {<<>>}

\* the frame of every non-empty response, mock or not, after
\* process_players_data and update_dashboard, computed once
Fetched ==
    Loaded @@ [data \in generate_mock_top_players \cup generate_mock_player_details |->
                  update_dashboard(Processed(data))]

\* tables handed to set_data directly: one with three of the candidate feature
\* columns, one with six of them and neither rating nor position
DirectTables ==
    LET full == Processed(<<TwoStints, Player(2, "Forward", 22, <<Block(1, 2, 6, 1, 1)>>)>>)
    IN {Project(full, {"player_id", "position", "age", "rating", "goals_total"}),
        Project(full, {"player_id", "age", "minutes_played", "shots_total",
                       "goals_total", "assists", "duels_won"})}

(***************************************************************************)
(* PlayerRecommender (src/models/recommender.py)                           *)
(***************************************************************************)
\* Python's None in a field that otherwise holds an object
NoneObj == [none |-> TRUE]

\* a Python list in a field that otherwise holds None
List(items) == [items |-> items]

\* an emitted Qt signal: its name, its message (error signals) and its
\* DataFrame (recommendation_ready; the frame of processing_complete is the one
\* DataProcessor.players_df holds and is not repeated in the signal)
Signal(name, msg, df) == [sig |-> name, msg |-> msg, df |-> df]

\* the candidate feature schema assigned to self.feature_columns
FeatureColumns ==
    <<"age", "minutes_played", "rating",
      "shots_total", "shots_on_target", "goals_total", "assists",
      "passes_total", "passes_accuracy", "tackles_total",
      "tackles_blocks", "tackles_interceptions",
      "duels_total", "duels_won">>

\* the threshold of preprocess_data: fewer existing columns is an error
MinFeatures == 5
\* n_neighbors = min(11, len(X)), n_clusters = min(8, len(X))
DefaultNeighbors == 11
MaxClusters == 8

Min(a, b) == IF a < b THEN a ELSE b

\* [col for col in self.feature_columns if col in df.columns]
ExistingColumns(df) ==
    LET In(c) == c \in df.cols IN SelectSeq(FeatureColumns, In)

RAdd(x, y) == Rat(x.n * y.d + y.n * x.d, x.d * y.d)
RSub(x, y) == Rat(x.n * y.d - y.n * x.d, x.d * y.d)
RMul(x, y) == Rat(x.n * y.n, x.d * y.d)

RECURSIVE RSum(_)
RSum(xs) == IF xs = <<>> THEN Num(0) ELSE RAdd(Head(xs), RSum(Tail(xs)))

\* SimpleImputer(strategy='mean').fit: the mean of the values present, per column
ImputerMean(df, col) ==
    LET present == SelectSeq(Column(df, col), IsNum)
    IN Divide(RSum(present), Num(Len(present)))

\* StandardScaler.fit on the imputed column: mean_ and var_ (population variance)
ScalerMean(xs) == Divide(RSum(xs), Num(Len(xs)))
ScalerVar(xs) ==
    LET m == ScalerMean(xs)
    IN Divide(RSum(Eager([i \in 1..Len(xs) |-> RMul(RSub(xs[i], m), RSub(xs[i], m))])),
              Num(Len(xs)))

\* self.preprocessing.fit_transform(X) on the frame X = df[existing_columns]:
\* [raised |-> the call raises, values |-> the imputed values, mean, var |-> the
\* parameters the scaler learnt from them].  Entry (i, j) of the standardized
\* matrix is (values[i][j] - mean[j]) / sqrt(var[j]), with sqrt(var[j]) read as
\* 1 when var[j] = 0.
fit_transform(X) ==
    LET columns == LET In(c) == c \in X.cols IN SelectSeq(FeatureColumns, In)
        cols == 1..Len(columns)
        \* the imputer and the scaler validate their input: a string, None or an
        \* infinity under a feature column raises
        valid == \A j \in cols : \A i \in Indices(X) :
                     X.rows[i][columns[j]].k \in {"num", "nan"}
        \* the imputer drops a column with no value present
        Present(j) == \E i \in Indices(X) : IsNum(X.rows[i][columns[j]])
        kept == SelectSeq(Eager([j \in cols |-> j]), Present)
    IN
    IF ~valid \/ kept = <<>>
    THEN [raised |-> TRUE, values |-> <<>>, mean |-> <<>>, var |-> <<>>]
    ELSE
    LET values == Eager([i \in Indices(X) |->
                      Eager([j \in 1..Len(kept) |->
                          LET c == X.rows[i][columns[kept[j]]]
                          IN IF IsNum(c) THEN c
                             ELSE ImputerMean(X, columns[kept[j]])])])
        column(j) == Eager([i \in Indices(X) |-> values[i][j]])
    IN [raised |-> FALSE,
        values |-> values,
        mean |-> Eager([j \in 1..Len(kept) |-> ScalerMean(column(j))]),
        var |-> Eager([j \in 1..Len(kept) |-> ScalerVar(column(j))])]

\* X = df[existing_columns].copy()
FeatureFrame(df) ==
    LET existing_columns == ExistingColumns(df)
    IN Project(df, {existing_columns[j] : j \in 1..Len(existing_columns)})

\* fit_transform of the feature frame of every table that can be loaded,
\* computed once
Transformed ==
    Eager([X \in {FeatureFrame(df) : df \in {Fetched[data].df : data \in DOMAIN Fetched}
                                            \cup DirectTables}
              |-> fit_transform(X)])

\* preprocess_data(): what the call returns and what it does to the object.
\*   X        the standardized matrix [values, mean, var] (see fit_transform), or NoneObj
\*   features existing_columns, or NoneObj
\*   scaler   self.scaler after the call
\*   feature_columns  self.feature_columns after the call
\*   emitted  the error_occurred signals of the call
preprocess_data(self) ==
    LET df == self.players_df
        failed(msg, fc) ==
            [X |-> NoneObj, features |-> NoneObj, scaler |-> self.scaler,
             feature_columns |-> fc,
             emitted |-> <<Signal("error_occurred", msg, NoneObj)>>]
    IN
    IF df = NoneObj \/ Len(df.rows) = 0
    THEN failed("No data available for preprocessing", self.feature_columns)
    ELSE
    LET existing_columns == ExistingColumns(df)
    IN
    IF Len(existing_columns) < MinFeatures
    THEN failed("Insufficient features for recommendation", List(FeatureColumns))
    ELSE
    LET Fitted(X_scaled) ==
            IF X_scaled.raised
            THEN failed("Error preprocessing data", List(FeatureColumns))
            ELSE [X |-> [values |-> X_scaled.values, mean |-> X_scaled.mean,
                         var |-> X_scaled.var],
                  features |-> existing_columns,
                  scaler |-> [mean |-> X_scaled.mean, var |-> X_scaled.var],
                  feature_columns |-> List(FeatureColumns),
                  emitted |-> <<>>]
    IN Bind(Transformed[FeatureFrame(df)], Fitted)

\* the points at which a fit of train_models can raise (the except branch of
\* train_models is there for them); "none": no fit raises
FitFailures == {"none", "knn_fit", "kmeans_fit"}

\* labelings numbered from 1
ClusterLabelingsFromOne(X, k) ==
    {[i \in 1..Len(X.values) |-> 1 + (i % k)]}

\* the labels KMeans(n_clusters=k).fit_predict(X) can return: equal rows share a
\* label, and while there are no more distinct rows than clusters every distinct
\* row is a cluster of its own; which label a cluster gets is the seeded
\* generator's choice
ClusterLabelings(X, k) ==
    LET n == Len(X.values)
        distinct == {X.values[i] : i \in 1..n}
    IN {l \in [1..n -> 0..(k - 1)] :
           \A i, j \in 1..n :
               /\ X.values[i] = X.values[j] => l[i] = l[j]
               /\ (Cardinality(distinct) <= k /\ l[i] = l[j])
                      => X.values[i] = X.values[j]}

\* a train_models that fits nothing and emits model_trained at its end, whatever
\* preprocess_data has reported
train_models_always_trained(self, fail) ==
    {[self |-> self,
      emitted |-> Append(pre.emitted, Signal("model_trained", "", NoneObj))]
     : pre \in {preprocess_data(self)}}

\* train_models(): the outcomes of one call, each the object afterwards and the
\* signals emitted
train_models(self, fail) ==
    LET error == Signal("error_occurred", "Error training recommendation models", NoneObj)
        Train(pre) ==
            LET self1 == [self EXCEPT !.scaler = pre.scaler,
                                      !.feature_columns = pre.feature_columns]
            IN
            IF pre.X = NoneObj \/ pre.features = NoneObj
            THEN {[self |-> self1, emitted |-> pre.emitted]}
            ELSE
            LET X == pre.X
                new_knn == [n_neighbors |-> Min(DefaultNeighbors, Len(X.values)),
                            fitted |-> FALSE, fit_X |-> NoneObj]
                new_kmeans == [n_clusters |-> Min(MaxClusters, Len(X.values)),
                               fitted |-> FALSE]
            IN
            IF fail = "knn_fit"
            THEN {[self |-> [self1 EXCEPT !.knn_model = new_knn], emitted |-> <<error>>]}
            ELSE
            LET self2 == [self1 EXCEPT
                            !.knn_model = [new_knn EXCEPT !.fitted = TRUE, !.fit_X = X]]
            IN
            IF fail = "kmeans_fit"
            THEN {[self |-> [self2 EXCEPT !.kmeans_model = new_kmeans],
                   emitted |-> <<error>>]}
            ELSE
            {[self |-> [self2 EXCEPT
                          !.kmeans_model = [new_kmeans EXCEPT !.fitted = TRUE],
                          !.players_df = SetColumn(self.players_df, "cluster",
                                             Eager([i \in Indices(self.players_df) |->
                                                        Num(labels[i])]))],
              emitted |-> <<Signal("model_trained", "", NoneObj)>>]
             : labels \in ClusterLabelings(X, new_kmeans.n_clusters)}
    IN Bind(preprocess_data(self), Train)

\* the sequences of k distinct elements of S
RECURSIVE Arrangements(_, _)
Arrangements(S, k) ==
    IF k = 0 THEN {<<>>}
    ELSE UNION {{<<x>> \o t : t \in Arrangements(S \ {x}, k - 1)} : x \in S}

\* the squared Euclidean distance of two standardized rows that share the
\* scaler's variance: sum of (u[j] - v[j])^2 / var[j], a zero variance read as 1
Distance2(u, v, var) ==
    RSum(Eager([j \in 1..Len(u) |->
            Divide(RMul(RSub(u[j], v[j]), RSub(u[j], v[j])),
                   IF var[j].n = 0 THEN Num(1) ELSE var[j])]))

\* the distance between rows standardized with different parameters is not a
\* rational: the model keeps its rank p in the result (the p-th smallest)
Rank(p) == [k |-> "rank", n |-> p, d |-> 1, s |-> ""]

\* knn_model.kneighbors(X[player_idx].reshape(1, -1), n_neighbors=k):
\* [raised |-> the call raises, results |-> the (indices, distances) it can return,
\* as sequences of [index, dist2] (dist2 the squared distance), nearest first; rows
\* at equal distance come in any order
kneighbors(knn_model, X, player_idx, k) ==
    LET raise == [raised |-> TRUE, results |-> {}]
    IN
    IF ~knn_model.fitted THEN raise
    ELSE
    LET fit == knn_model.fit_X
        n == Len(fit.values)
        q == X.values[player_idx]
    IN
    IF Len(q) # Len(fit.values[1]) \/ k > n \/ k <= 0 THEN raise
    ELSE IF X.mean = fit.mean /\ X.var = fit.var
    THEN LET d == Eager([i \in 1..n |-> Distance2(q, fit.values[i], fit.var)])
         IN [raised |-> FALSE,
             results |->
               {[p \in 1..k |-> [index |-> a[p], dist2 |-> d[a[p]]]] :
                  a \in {b \in Arrangements(1..n, k) :
                           /\ \A p \in 1..(k - 1) : GE(d[b[p + 1]], d[b[p]])
                           /\ \A m \in 1..n :
                                 (\A p \in 1..k : b[p] # m) => GE(d[m], d[b[k]])}}]
    ELSE [raised |-> FALSE,
          results |->
            {[p \in 1..k |-> [index |-> a[p], dist2 |-> Rank(p)]] :
               a \in Arrangements(1..n, k)}]

\* similarity_score = 1 / (1 + distance), kept as the squared distance it is
\* computed from: the cell stands for 1 / (1 + sqrt(n / d)), or for the score of
\* the distance of rank n (s = "rank")
Score(dist2) ==
    [k |-> "score", n |-> dist2.n, d |-> dist2.d,
     s |-> IF dist2.k = "rank" THEN "rank" ELSE ""]

\* recommend_similar_players(player_id, n_recommendations): the outcomes of one
\* call, each the object afterwards and the signals emitted
recommend_similar_players(self, player_id, n_recommendations, fail) ==
    LET error(msg) == Signal("error_occurred", msg, NoneObj)
        exception == error("Error generating recommendations")
        \* if self.knn_model is None: self.train_models()
        trained == IF self.knn_model = NoneObj
                   THEN train_models(self, fail)
                   ELSE {[self |-> self, emitted |-> <<>>]}
        \* from "Preprocess data again to ensure consistency" on, for the player
        \* at row first
        query(t, first, pre) ==
            LET df == t.self.players_df
                s2 == [t.self EXCEPT !.scaler = pre.scaler,
                                     !.feature_columns = pre.feature_columns]
                \* players_df.iloc[similar_indices] past the end of the table raises
                inside(r) == \A p \in 2..Len(r) : r[p].index <= Len(df.rows)
                similar_players(r) ==
                    DataFrame(df.cols \cup {"similarity_score"},
                        [p \in 1..(Len(r) - 1) |->
                            [c \in df.cols \cup {"similarity_score"} |->
                                IF c = "similarity_score" THEN Score(r[p + 1].dist2)
                                ELSE df.rows[r[p + 1].index][c]]])
                answer(found) ==
                    IF found.raised
                    THEN {[self |-> s2, emitted |-> Append(t.emitted, exception)]}
                    ELSE {[self |-> s2,
                           emitted |-> Append(t.emitted,
                               IF inside(r)
                               THEN Signal("recommendation_ready", "", similar_players(r))
                               ELSE exception)]
                          : r \in found.results}
            IN
            IF pre.X = NoneObj
            THEN {[self |-> s2, emitted |-> t.emitted \o pre.emitted]}
            ELSE Bind(kneighbors(s2.knn_model, pre.X, first, n_recommendations + 1), answer)
        rest(t) ==
            LET s1 == t.self
                df == s1.players_df
            IN
            IF s1.knn_model = NoneObj
            THEN {[self |-> s1,
                   emitted |-> Append(t.emitted, error("Recommendation model not available"))]}
            ELSE IF df = NoneObj \/ "player_id" \notin df.cols
            THEN {[self |-> s1, emitted |-> Append(t.emitted, exception)]}
            ELSE
            LET player_idx == {i \in Indices(df) : df.rows[i]["player_id"] = Num(player_id)}
            IN
            IF player_idx = {}
            THEN {[self |-> s1,
                   emitted |-> Append(t.emitted,
                                      error("Player with ID {player_id} not found"))]}
            ELSE UNION {query(t, CHOOSE i \in player_idx : \A j \in player_idx : i <= j, pre)
                        : pre \in {preprocess_data(s1)}}
    IN UNION {rest(t) : t \in trained}

(***************************************************************************)
(* A criteria dictionary is the sequence of its items in insertion order.  *)
(* A key is kept as the prefix the code tests with startswith and the rest *)
(* of the string (key[4:]): 'min_rating' is ("min_", "rating"), and        *)
(* 'position' is ("", "position").                                         *)
(***************************************************************************)
Item(prefix, metric, value) == [prefix |-> prefix, metric |-> metric, value |-> value]

HasKey(criteria, prefix, metric) ==
    \E p \in 1..Len(criteria) : criteria[p].prefix = prefix /\ criteria[p].metric = metric

Lookup(criteria, prefix, metric) ==
    criteria[CHOOSE p \in 1..Len(criteria) :
                 criteria[p].prefix = prefix /\ criteria[p].metric = metric].value

\* the truth value Python gives a criteria value
Truthy(v) == (v.k = "str" /\ v.s # "") \/ (v.k \in {"num", "inf"} /\ v.n # 0) \/ v.k = "nan"

\* df[mask]: the rows that pass, in order
Filter(df, Pass(_)) == DataFrame(df.cols, SelectSeq(df.rows, Pass))

\* ordering a column against a threshold raises on a string under the column or a
\* string as the threshold
OrderingRaises(df, col, value) ==
    \/ value.k = "str"
    \/ \E i \in Indices(df) : df.rows[i][col].k = "str"

\* a variant of the loop that ends at the first item it has nothing to do for
RECURSIVE NumericFiltersUntilSkipped(_, _, _)
NumericFiltersUntilSkipped(criteria, p, df) ==
    IF p > Len(criteria) THEN [raised |-> FALSE, df |-> df]
    ELSE
    LET key == criteria[p]
        applies == /\ key.prefix \in {"min_", "max_"}
                   /\ key.value # None
                   /\ key.metric \in df.cols
        AtLeast(row) == GE(row[key.metric], key.value)
        AtMost(row) == LE(row[key.metric], key.value)
    IN
    IF ~applies THEN [raised |-> FALSE, df |-> df]
    ELSE IF OrderingRaises(df, key.metric, key.value) THEN [raised |-> TRUE, df |-> df]
    ELSE IF key.prefix = "min_"
         THEN NumericFiltersUntilSkipped(criteria, p + 1, Filter(df, AtLeast))
         ELSE NumericFiltersUntilSkipped(criteria, p + 1, Filter(df, AtMost))

\* a variant of the loop that looks the column of every threshold up, so that a
\* column the frame does not have raises
RECURSIVE NumericFiltersKeyError(_, _, _)
NumericFiltersKeyError(criteria, p, df) ==
    IF p > Len(criteria) THEN [raised |-> FALSE, df |-> df]
    ELSE
    LET key == criteria[p]
        applies == key.prefix \in {"min_", "max_"} /\ key.value # None
        AtLeast(row) == GE(row[key.metric], key.value)
        AtMost(row) == LE(row[key.metric], key.value)
    IN
    IF ~applies THEN NumericFiltersKeyError(criteria, p + 1, df)
    ELSE IF key.metric \notin df.cols THEN [raised |-> TRUE, df |-> df]
    ELSE IF OrderingRaises(df, key.metric, key.value) THEN [raised |-> TRUE, df |-> df]
    ELSE IF key.prefix = "min_"
         THEN NumericFiltersKeyError(criteria, p + 1, Filter(df, AtLeast))
         ELSE NumericFiltersKeyError(criteria, p + 1, Filter(df, AtMost))

\* the loop over criteria.items(): [raised, df] after the items from position p on
RECURSIVE NumericFilters(_, _, _)
NumericFilters(criteria, p, df) ==
    IF p > Len(criteria) THEN [raised |-> FALSE, df |-> df]
    ELSE
    LET key == criteria[p]
        applies == /\ key.prefix \in {"min_", "max_"}
                   /\ key.value # None
                   /\ key.metric \in df.cols
        AtLeast(row) == GE(row[key.metric], key.value)
        AtMost(row) == LE(row[key.metric], key.value)
    IN
    IF ~applies THEN NumericFilters(criteria, p + 1, df)
    ELSE IF OrderingRaises(df, key.metric, key.value) THEN [raised |-> TRUE, df |-> df]
    ELSE IF key.prefix = "min_"
         THEN NumericFilters(criteria, p + 1, Filter(df, AtLeast))
         ELSE NumericFilters(criteria, p + 1, Filter(df, AtMost))

\* a may come before b in sort_values(by='rating', ascending=False): the larger
\* first, missing values last, equal values in either order
MayPrecede(a, b) ==
    IF IsNA(b) THEN TRUE
    ELSE IF IsNA(a) THEN FALSE
    ELSE IF a.k = "str" \/ b.k = "str" THEN TRUE
    ELSE GE(a, b)

\* a variant of the sort that leaves the rows as they are
LeftInTableOrder(df, col) == {df}

\* the orders sort_values(by=col, ascending=False) can leave the rows in
SortedDescending(df, col) ==
    LET n == Len(df.rows)
    IN {DataFrame(df.cols, [p \in 1..n |-> df.rows[a[p]]]) :
          a \in {b \in Arrangements(1..n, n) :
                   \A p \in 1..(n - 1) :
                       MayPrecede(df.rows[b[p]][col], df.rows[b[p + 1]][col])}}

\* sorting raises when the column mixes strings and numbers
SortRaises(df, col) ==
    /\ \E i \in Indices(df) : df.rows[i][col].k = "str"
    /\ \E i \in Indices(df) : df.rows[i][col].k \in {"num", "inf"}

\* df.head(n)
HeadRows(df, n) ==
    LET m == IF n >= 0 THEN Min(n, Len(df.rows))
             ELSE IF Len(df.rows) + n > 0 THEN Len(df.rows) + n ELSE 0
    IN DataFrame(df.cols, SubSeq(df.rows, 1, m))

\* recommend_by_criteria(criteria, n_recommendations): the signals one call can
\* emit (the object is left as it is)
recommend_by_criteria(self, criteria, n_recommendations) ==
    LET error(msg) == Signal("error_occurred", msg, NoneObj)
        exception == error("Error generating criteria-based recommendations")
    IN
    IF self.players_df = NoneObj THEN {<<error("No player data available")>>}
    ELSE
    LET df == self.players_df
        by_position == HasKey(criteria, "", "position")
                       /\ Truthy(Lookup(criteria, "", "position"))
        AtPosition(row) == row["position"] = Lookup(criteria, "", "position")
    IN
    IF by_position /\ "position" \notin df.cols THEN {<<exception>>}
    ELSE
    LET positioned == IF by_position THEN Filter(df, AtPosition) ELSE df
        filtered == NumericFilters(criteria, 1, positioned)
    IN
    IF filtered.raised THEN {<<exception>>}
    ELSE IF "rating" \in filtered.df.cols
    THEN IF SortRaises(filtered.df, "rating") THEN {<<exception>>}
         ELSE {<<Signal("recommendation_ready", "", HeadRows(sorted, n_recommendations))>>
               : sorted \in SortedDescending(filtered.df, "rating")}
    ELSE {<<Signal("recommendation_ready", "", HeadRows(filtered.df, n_recommendations))>>}

(***************************************************************************)
(* The queries the environment issues.                                     *)
(***************************************************************************)
\* the player ids queries are issued with (9 is in no raw entry)
QueryIds == {1, 2, 9}

\* the criteria dictionaries queries are issued with
QueryCriteria ==
    {<<>>,
     <<Item("", "position", Str("Defender"))>>,
     <<Item("", "position", Str("Defender")), Item("min_", "tackles_total", Num(1))>>,
     <<Item("", "position", None), Item("min_", "rating", Num(7)),
       Item("max_", "age", Num(21))>>,
     <<Item("max_", "age", Num(21)), Item("min_", "rating", Num(7)),
       Item("", "position", Str(""))>>,
     <<Item("min_", "shot_conversion_rate", Num(50)), Item("max_", "rating", None)>>,
     <<Item("min_", "sprints", Num(1)), Item("max_", "rating", Num(7))>>,
     <<Item("", "minimum_rating", Num(8))>>,
     <<Item("min_", "cluster", Num(1))>>}

(***************************************************************************)
(* The state.                                                              *)
(***************************************************************************)
VARIABLES
    dp_players_df,    \* DataProcessor.players_df
    players_df,       \* PlayerRecommender.players_df
    shared,           \* both fields hold the same DataFrame object
    knn_model,        \* PlayerRecommender.knn_model
    kmeans_model,     \* PlayerRecommender.kmeans_model
    feature_columns,  \* PlayerRecommender.feature_columns
    scaler,           \* PlayerRecommender.scaler
    timers,           \* pending QTimer.singleShot(100, recommender.train_models)
    loads,            \* data loads so far
    in_flight,        \* train_models calls stopped in the modal dialog of show_error
    call,             \* the handler that ran last and its arguments
    emitted           \* the signals it emitted, in order

vars == <<dp_players_df, players_df, shared, knn_model, kmeans_model,
          feature_columns, scaler, timers, loads, in_flight, call, emitted>>

\* the PlayerRecommender object
Recommender ==
    [players_df |-> players_df, knn_model |-> knn_model, kmeans_model |-> kmeans_model,
     feature_columns |-> feature_columns, scaler |-> scaler]

Call(op, player_id, n, criteria, fail) ==
    [op |-> op, player_id |-> player_id, n |-> n, criteria |-> criteria, fail |-> fail]

\* __init__ of DataProcessor and PlayerRecommender
Init ==
    /\ dp_players_df = NoneObj
    /\ players_df = NoneObj
    /\ shared = FALSE
    /\ knn_model = NoneObj
    /\ kmeans_model = NoneObj
    /\ feature_columns = NoneObj
    /\ scaler = NoneObj
    /\ timers = 0
    /\ loads = 0
    /\ in_flight = 0
    /\ call = Call("__init__", 0, 0, <<>>, "none")
    /\ emitted = <<>>

\* the recommender's fields after a method ran on it; a change of its DataFrame
\* made in place shows in DataProcessor.players_df when the object is shared
Store(self) ==
    /\ players_df' = self.players_df
    /\ knn_model' = self.knn_model
    /\ kmeans_model' = self.kmeans_model
    /\ feature_columns' = self.feature_columns
    /\ scaler' = self.scaler
    /\ dp_players_df' = IF shared THEN self.players_df ELSE dp_players_df

\* on_data_fetched with a process_players_data that does not look whether the
\* response has entries
on_data_fetched_unchecked(data) ==
    /\ in_flight = 0
    /\ loads < MaxLoads
    /\ loads' = loads + 1
    /\ UNCHANGED in_flight
    /\ call' = Call("on_data_fetched", 0, 0, <<>>, "none") @@ [data |-> data]
    /\ \E metrics \in {IF data \in DOMAIN Loaded THEN Loaded[data]
                        ELSE update_dashboard(Processed(data))} :
           /\ dp_players_df' = metrics.df
           /\ players_df' = metrics.df
           /\ shared' = TRUE
           /\ timers' = timers + 1
           /\ emitted' = <<Signal("processing_complete", "", NoneObj)>> \o
                          (IF metrics.error
                           THEN <<Signal("processing_error",
                                         "Error calculating metrics", NoneObj)>>
                           ELSE <<>>)
           /\ UNCHANGED <<knn_model, kmeans_model, feature_columns, scaler>>

\* on_data_fetched with an on_data_processed that starts no timer
on_data_fetched_no_timer(data) ==
    /\ in_flight = 0
    /\ loads < MaxLoads
    /\ loads' = loads + 1
    /\ UNCHANGED in_flight
    /\ call' = Call("on_data_fetched", 0, 0, <<>>, "none") @@ [data |-> data]
    /\ IF data = <<>>
       THEN /\ emitted' = <<Signal("processing_error",
                                   "No player data found in the API response", NoneObj)>>
            /\ UNCHANGED <<dp_players_df, players_df, shared, knn_model, kmeans_model,
                           feature_columns, scaler, timers>>
       ELSE /\ dp_players_df' = Loaded[data].df
            /\ players_df' = Loaded[data].df
            /\ shared' = TRUE
            /\ emitted' = <<Signal("processing_complete", "", NoneObj)>>
            /\ UNCHANGED <<knn_model, kmeans_model, feature_columns, scaler, timers>>

\* MainController.on_data_fetched -> DataProcessor.process_players_data, and on
\* processing_complete MainController.on_data_processed: update_dashboard (the
\* metrics are computed in place on the processed frame), set_data, and the
\* 100 ms single-shot timer for train_models
on_data_fetched(data) ==
    /\ in_flight = 0
    /\ loads < MaxLoads
    /\ loads' = loads + 1
    /\ UNCHANGED in_flight
    /\ call' = Call("on_data_fetched", 0, 0, <<>>, "none") @@ [data |-> data]
    /\ IF data = <<>>
       THEN /\ emitted' = <<Signal("processing_error",
                                   "No player data found in the API response", NoneObj)>>
            /\ UNCHANGED <<dp_players_df, players_df, shared, knn_model, kmeans_model,
                           feature_columns, scaler, timers>>
       ELSE LET metrics == Loaded[data]
            IN /\ dp_players_df' = metrics.df
               /\ players_df' = metrics.df
               /\ shared' = TRUE
               /\ timers' = timers + 1
               /\ emitted' = <<Signal("processing_complete", "", NoneObj)>> \o
                              (IF metrics.error
                               THEN <<Signal("processing_error",
                                             "Error calculating metrics", NoneObj)>>
                               ELSE <<>>)
               /\ UNCHANGED <<knn_model, kmeans_model, feature_columns, scaler>>

\* PlayerRecommender.set_data called with a table of the caller's own
set_data(df) ==
    /\ in_flight = 0
    /\ loads < MaxLoads
    /\ loads' = loads + 1
    /\ UNCHANGED in_flight
    /\ call' = Call("set_data", 0, 0, <<>>, "none")
    /\ players_df' = df
    /\ shared' = FALSE
    /\ emitted' = <<>>
    /\ UNCHANGED <<dp_players_df, knn_model, kmeans_model, feature_columns, scaler, timers>>

\* the fits that can raise in a call of train_models on the object: none when
\* preprocess_data returns before them
PossibleFailures(self) ==
    IF preprocess_data(self).X = NoneObj THEN {"none"} ELSE FitFailures

\* error_occurred is connected to MainController.show_error, whose
\* QMessageBox.critical runs an event loop of its own until the user closes the
\* dialog: the emit returns only then
Modal(signal) == signal.sig = "error_occurred"

\* a single-shot timer of on_data_processed fires, in the event loop of the
\* application or in the one of an open dialog: train_models runs, up to its return
\* or to the error it emits last; nothing of it is left to run after that emit.
\* The dialog stops user input, so loads and queries wait for it to close; the
\* dialogs a query opens are taken as closed before the next timer fires.
timer_train_models(fail) ==
    /\ timers > 0
    /\ timers' = timers - 1
    /\ call' = Call("train_models", 0, 0, <<>>, fail)
    /\ \E out \in train_models(Recommender, fail) :
           /\ Store(out.self)
           /\ emitted' = out.emitted
           /\ in_flight' = IF \E p \in 1..Len(out.emitted) : Modal(out.emitted[p])
                           THEN in_flight + 1 ELSE in_flight
    /\ UNCHANGED <<shared, loads>>

\* the user closes the dialog of show_error: QMessageBox.critical returns, and so
\* does the emit of the train_models that has been waiting in it the shortest
show_error_closed ==
    /\ in_flight > 0
    /\ in_flight' = in_flight - 1
    /\ UNCHANGED <<dp_players_df, players_df, shared, knn_model, kmeans_model,
                   feature_columns, scaler, timers, loads, call, emitted>>

\* PlayerRecommender.recommend_similar_players(player_id, n_recommendations)
call_recommend_similar_players(player_id, n, fail) ==
    /\ in_flight = 0
    /\ call' = Call("recommend_similar_players", player_id, n, <<>>, fail)
    /\ \E out \in recommend_similar_players(Recommender, player_id, n, fail) :
           Store(out.self) /\ emitted' = out.emitted
    /\ UNCHANGED <<shared, loads, timers, in_flight>>

\* recommend_by_criteria that keeps the frame it filtered, sorted and cut as
\* the table
call_recommend_by_criteria_in_place(criteria, n) ==
    /\ in_flight = 0
    /\ call' = Call("recommend_by_criteria", 0, n, criteria, "none")
    /\ emitted' \in recommend_by_criteria(Recommender, criteria, n)
    /\ players_df' = IF emitted'[1].sig = "recommendation_ready"
                     THEN emitted'[1].df
                     ELSE players_df
    /\ UNCHANGED <<dp_players_df, shared, knn_model, kmeans_model,
                   feature_columns, scaler, timers, loads, in_flight>>

\* PlayerRecommender.recommend_by_criteria(criteria, n_recommendations)
call_recommend_by_criteria(criteria, n) ==
    /\ in_flight = 0
    /\ call' = Call("recommend_by_criteria", 0, n, criteria, "none")
    /\ emitted' \in recommend_by_criteria(Recommender, criteria, n)
    /\ UNCHANGED <<dp_players_df, players_df, shared, knn_model, kmeans_model,
                   feature_columns, scaler, timers, loads, in_flight>>

Next ==
    \/ \E data \in RawResponses : on_data_fetched(data)
    \/ \E df \in DirectTables : set_data(df)
    \/ \E fail \in PossibleFailures(Recommender) : timer_train_models(fail)
    \/ show_error_closed
    \/ \E id \in QueryIds, n \in 1..MaxRecs,
          fail \in IF knn_model = NoneObj THEN PossibleFailures(Recommender) ELSE {"none"} :
           call_recommend_similar_players(id, n, fail)
    \/ \E criteria \in QueryCriteria, n \in 1..MaxRecs :
           call_recommend_by_criteria(criteria, n)

Spec == Init /\ [][Next]_vars

\* a pending single-shot timer fires, whatever its train_models does
timer_fires ==
    /\ timers > 0
    /\ timers' = timers - 1
    /\ \E fail \in PossibleFailures(Recommender) : timer_train_models(fail)

\* the steps of Next with one criteria query in place of all of them: a criteria
\* query leaves the engine and the timers as they are, whatever its arguments
FairNext ==
    \/ \E data \in RawResponses : on_data_fetched(data)
    \/ \E df \in DirectTables : set_data(df)
    \/ \E fail \in PossibleFailures(Recommender) : timer_train_models(fail)
    \/ show_error_closed
    \/ \E id \in QueryIds, n \in 1..MaxRecs,
          fail \in IF knn_model = NoneObj THEN PossibleFailures(Recommender) ELSE {"none"} :
           call_recommend_similar_players(id, n, fail)
    \/ call_recommend_by_criteria(<<>>, 1)

\* the Qt event loop fires every single-shot timer that is pending
FairSpec == Init /\ [][FairNext]_vars /\ WF_vars(timer_fires)

(***************************************************************************)
(* calculate_player_metrics on the tables of responses whose shot, goal and *)
(* duel counters range over 0..MaxCount.                                    *)
(***************************************************************************)
MaxCount == 2

\* responses of two players with one statistics block each
CounterResponses ==
    {<<Player(1, "Forward", 20, <<Block(a1, m1, 7, t1, w1)>>),
       Player(2, "Defender", 21, <<Block(1, 1, 7, t2, w2)>>)>> :
         a1 \in 0..MaxCount, m1 \in 0..MaxCount,
         t1 \in 0..MaxCount, w1 \in 0..MaxCount, t2 \in 0..MaxCount, w2 \in 0..MaxCount}

\* process_players_data has built the table of a response
MetricsInit ==
    /\ dp_players_df \in {Processed(players) : players \in CounterResponses}
    /\ players_df = NoneObj
    /\ shared = FALSE
    /\ knn_model = NoneObj
    /\ kmeans_model = NoneObj
    /\ feature_columns = NoneObj
    /\ scaler = NoneObj
    /\ timers = 0
    /\ loads = 1
    /\ in_flight = 0
    /\ call = Call("process_players_data", 0, 0, <<>>, "none")
    /\ emitted = <<Signal("processing_complete", "", NoneObj)>>

\* DataProcessor.calculate_player_metrics(df) on the table
call_calculate_player_metrics ==
    /\ call.op = "process_players_data"
    /\ call' = Call("calculate_player_metrics", 0, 0, <<>>, "none")
    /\ \E metrics \in {calculate_player_metrics(dp_players_df)} :
           /\ dp_players_df' = metrics.df
           /\ emitted' = IF metrics.error
                         THEN <<Signal("processing_error", "Error calculating metrics", NoneObj)>>
                         ELSE <<>>
    /\ UNCHANGED <<players_df, shared, knn_model, kmeans_model, feature_columns, scaler,
                   timers, loads, in_flight>>

MetricsNext == call_calculate_player_metrics

MetricsSpec == MetricsInit /\ [][MetricsNext]_vars

(***************************************************************************)
(* The DataProcessor between loads: the lookup of a player and               *)
(* calculate_player_metrics called without a frame.                         *)
(***************************************************************************)
\* what a call leaves the caller with when it raises instead of returning
Raised == [raised |-> TRUE]

\* get_player_by_id(player_id) on the frame the DataProcessor holds: the value
\* returned (NoneObj for None, the row for player.iloc[0]), or Raised
get_player_by_id(df, player_id) ==
    IF df = NoneObj THEN NoneObj
    ELSE IF "player_id" \notin df.cols THEN Raised
    ELSE LET player == SelectSeq(df.rows, LAMBDA row : row["player_id"] = Num(player_id))
         IN IF Len(player) = 0 THEN NoneObj ELSE player[1]

\* DataProcessor.get_player_by_id(player_id), as the controller calls it

call_get_player_by_id(player_id) ==
    /\ in_flight = 0
    /\ call' = Call("get_player_by_id", player_id, 0, <<>>, "none")
                   @@ [returned |-> get_player_by_id(dp_players_df, player_id)]
    /\ emitted' = <<>>
    /\ UNCHANGED <<dp_players_df, players_df, shared, knn_model, kmeans_model,
                   feature_columns, scaler, timers, loads, in_flight>>

\* DataProcessor.calculate_player_metrics(): df is None, and self.players_df.copy()
\* is evaluated before the test for None and outside the try block; on a table it
\* is the copy that gets the metrics
call_calculate_player_metrics_no_df ==
    /\ IF dp_players_df = NoneObj
       THEN /\ call' = Call("calculate_player_metrics", 0, 0, <<>>, "none")
                           @@ [returned |-> Raised]
            /\ emitted' = <<>>
       ELSE \E metrics \in {calculate_player_metrics(dp_players_df)} :
            /\ call' = Call("calculate_player_metrics", 0, 0, <<>>, "none")
                           @@ [returned |-> metrics.df]
            /\ emitted' = IF metrics.error
                          THEN <<Signal("processing_error", "Error calculating metrics",
                                        NoneObj)>>
                          ELSE <<>>
    /\ UNCHANGED <<dp_players_df, players_df, shared, knn_model, kmeans_model,
                   feature_columns, scaler, timers, loads, in_flight>>

ProcessorNext ==
    \/ \E data \in RawResponses : on_data_fetched(data)
    \/ \E fail \in PossibleFailures(Recommender) : timer_train_models(fail)
    \/ show_error_closed
    \/ \E id \in QueryIds : call_get_player_by_id(id)
    \/ call_calculate_player_metrics_no_df

ProcessorSpec == Init /\ [][ProcessorNext]_vars

(***************************************************************************)
(* ApiClient (src/models/api_client.py) in front of the controller.        *)
(***************************************************************************)
\* what requests.get, raise_for_status and response.json() leave fetch_data
\* with: a RequestException raised, or the decoded response
Response(raised, data) == [raised |-> raised, data |-> data]

ServerResponses ==
    {Response(TRUE, <<>>)} \cup {Response(FALSE, data) : data \in RawResponses}

\* the signals of DataProcessor while the slot of data_fetched runs
processing_signals(data) ==
    IF data = <<>>
    THEN <<Signal("processing_error", "No player data found in the API response", NoneObj)>>
    ELSE <<Signal("processing_complete", "", NoneObj)>> \o
         (IF Fetched[data].error
          THEN <<Signal("processing_error", "Error calculating metrics", NoneObj)>>
          ELSE <<>>)

\* fetch_data whose mock branch returns from inside the try block, so that
\* the finally clause runs after mock_data_response as well
fetch_data_signals_mock_in_try(use_mock_data, response) ==
    <<Signal("request_started", "", NoneObj)>> \o
    (IF response.raised
     THEN <<Signal("error_occurred", "API request failed", NoneObj)>>
     ELSE <<Signal("data_fetched", "", response.data)>> \o processing_signals(response.data)) \o
    (IF use_mock_data THEN <<Signal("request_finished", "", NoneObj)>> ELSE <<>>) \o
    <<Signal("request_finished", "", NoneObj)>>

\* the signals of one fetch_data call, in the order they are emitted, those of
\* the slots that run inside data_fetched.emit included
fetch_data_signals(use_mock_data, response) ==
    <<Signal("request_started", "", NoneObj)>> \o
    (IF use_mock_data
     THEN \* mock_data_response, then return
          <<Signal("data_fetched", "", response.data)>> \o processing_signals(response.data) \o
          <<Signal("request_finished", "", NoneObj)>>
     ELSE \* try / except requests.RequestException / finally
          (IF response.raised
           THEN <<Signal("error_occurred", "API request failed", NoneObj)>>
           ELSE <<Signal("data_fetched", "", response.data)>> \o processing_signals(response.data)) \o
          <<Signal("request_finished", "", NoneObj)>>)

\* ApiClient.fetch_data(endpoint, params), with MainController.on_data_fetched
\* and what follows it as the slot of data_fetched
fetch_data(use_mock_data, endpoint, response) ==
    /\ in_flight = 0
    /\ loads < MaxLoads
    /\ loads' = loads + 1
    /\ UNCHANGED in_flight
    /\ call' = Call("fetch_data", 0, 0, <<>>, "none")
                   @@ [use_mock_data |-> use_mock_data, endpoint |-> endpoint,
                       response |-> response]
    /\ emitted' = fetch_data_signals(use_mock_data, response)
    /\ IF response.raised \/ response.data = <<>>
       THEN UNCHANGED <<dp_players_df, players_df, shared, timers>>
       ELSE /\ dp_players_df' = Fetched[response.data].df
            /\ players_df' = Fetched[response.data].df
            /\ shared' = TRUE
            /\ timers' = timers + 1
    /\ UNCHANGED <<knn_model, kmeans_model, feature_columns, scaler>>

ApiNext ==
    \/ \E use_mock_data \in BOOLEAN, endpoint \in Endpoints :
           \E response \in IF use_mock_data
                            THEN {Response(FALSE, data) : data \in mock_data(endpoint)}
                            ELSE ServerResponses :
               fetch_data(use_mock_data, endpoint, response)
    \/ \E fail \in PossibleFailures(Recommender) : timer_train_models(fail)
    \/ show_error_closed

ApiSpec == Init /\ [][ApiNext]_vars

(***************************************************************************)
(* Properties.                                                             *)
(***************************************************************************)
\* the signals e holds a recommendation_ready / an error_occurred
Ready(e) == \E p \in 1..Len(e) : e[p].sig = "recommendation_ready"
Failed(e) == \E p \in 1..Len(e) : e[p].sig = "error_occurred"

\* the frame of the recommendation_ready signal in e
Result(e) == e[CHOOSE p \in 1..Len(e) : e[p].sig = "recommendation_ready"].df

\* the index is fitted, and on the matrix of the table the recommender holds
FittedOnCurrentTable ==
    /\ knn_model # NoneObj
    /\ knn_model.fitted
    /\ knn_model.fit_X = preprocess_data(Recommender).X

\* both models are fitted on the table the recommender holds
Trained ==
    /\ FittedOnCurrentTable
    /\ kmeans_model # NoneObj
    /\ kmeans_model.fitted

\* the cluster labels of the table, <<>> when it has none
ClusterLabels ==
    IF players_df # NoneObj /\ "cluster" \in players_df.cols
    THEN Column(players_df, "cluster") ELSE <<>>

\* the player ids in the table
PlayerIds ==
    IF players_df # NoneObj /\ "player_id" \in players_df.cols
    THEN {players_df.rows[i]["player_id"] : i \in Indices(players_df)} ELSE {}

\* a position is given: the item is there and holds a non-empty string
PositionGiven(item) ==
    item.prefix = "" /\ item.metric = "position" /\ item.value.k = "str" /\ item.value.s # ""

\* the row meets every item of the criteria that is supplied with a value and,
\* for a threshold, whose column is among cols
Satisfies(row, criteria, cols) ==
    \A p \in 1..Len(criteria) :
        LET item == criteria[p]
        IN /\ PositionGiven(item) => row["position"] = item.value
           /\ (item.prefix = "min_" /\ item.value # None /\ item.metric \in cols)
                  => GE(row[item.metric], item.value)
           /\ (item.prefix = "max_" /\ item.value # None /\ item.metric \in cols)
                  => LE(row[item.metric], item.value)

\* the rows of the table that pass the criteria of the last query
Passing ==
    {i \in Indices(players_df) : Satisfies(players_df.rows[i], call.criteria, players_df.cols)}

\* C1: a similarity query is answered only with an index fitted on the table the
\* recommender currently holds: no answer combines the index of a previous table
\* with the rows of the new one.
C1_NoTrainQuerySkew ==
    (call.op = "recommend_similar_players" /\ Ready(emitted)) => FittedOnCurrentTable

\* C2: no row of the result of recommend_similar_players has the player_id of the
\* reference player.
C2_ReferenceExcluded ==
    (call.op = "recommend_similar_players" /\ Ready(emitted)) =>
        \A i \in Indices(Result(emitted)) :
            Result(emitted).rows[i]["player_id"] # Num(call.player_id)

\* C3: a call of train_models that fails leaves knn_model, kmeans_model, scaler and
\* the cluster labels of the table as they were before the call.
C3_FailedTrainingKeepsTuple ==
    [][(call'.op = "train_models" /\ Failed(emitted')) =>
           /\ knn_model' = knn_model
           /\ kmeans_model' = kmeans_model
           /\ scaler' = scaler
           /\ ClusterLabels' = ClusterLabels]_vars

\* C4: a similarity query on an engine that has an index (so that the call trains
\* nothing) leaves the stored scaler as it was.
C4_QueryKeepsScaler ==
    [][(call'.op = "recommend_similar_players" /\ knn_model # NoneObj) =>
           scaler' = scaler]_vars

\* C5: with a table loaded that the models can be fitted on, trained or not, a
\* similarity query for a player_id that is not in the table emits exactly the
\* player-not-found error and leaves every field of the engine unchanged.
C5_UnknownPlayerLeavesEngine ==
    [][(/\ call'.op = "recommend_similar_players"
        /\ preprocess_data(Recommender).X # NoneObj
        /\ Num(call'.player_id) \notin PlayerIds) =>
           /\ emitted' = <<Signal("error_occurred",
                                  "Player with ID {player_id} not found", NoneObj)>>
           /\ UNCHANGED <<players_df, knn_model, kmeans_model, scaler, feature_columns>>]_vars

\* C6: on a trained table, a similarity query for a player_id in the table emits a
\* result of exactly n_recommendations rows, however many rows the table has.
C6_ExactlyNRows ==
    [][(/\ call'.op = "recommend_similar_players"
        /\ Trained
        /\ Num(call'.player_id) \in PlayerIds) =>
           /\ Ready(emitted')
           /\ Len(Result(emitted').rows) = call'.n]_vars

\* C7: every row of the result of recommend_by_criteria is at the given position
\* and within every min_/max_ threshold whose column the table has, whatever the
\* order of the keys.
C7_ResultSatisfiesCriteria ==
    (call.op = "recommend_by_criteria" /\ Ready(emitted)) =>
        \A i \in Indices(Result(emitted)) :
            Satisfies(Result(emitted).rows[i], call.criteria, players_df.cols)

\* a query with a position and a threshold that each rule a row of a three-row
\* table out has returned the one row left
C7_Witness ==
    /\ call.op = "recommend_by_criteria"
    /\ Ready(emitted)
    /\ call.criteria = <<Item("", "position", Str("Defender")),
                         Item("min_", "tackles_total", Num(1))>>
    /\ Len(players_df.rows) = 3
    /\ Len(Result(emitted).rows) = 1

\* C8: the result of recommend_by_criteria is the first n_recommendations of all
\* the passing rows, by rating descending when the table has a rating column and
\* in table order otherwise: it has min(n_recommendations, passing rows) rows and
\* no passing row left out has a higher rating than (without a rating column:
\* comes before) a returned row.
C8_TopNOfPassingRows ==
    (call.op = "recommend_by_criteria" /\ Ready(emitted)) =>
        LET R == Result(emitted).rows
            T == players_df.rows
            m == Len(R)
            Out(a, i) == \A p \in 1..m : a[p] # i
        IN /\ m = Min(call.n, Cardinality(Passing))
           /\ \E a \in Arrangements(Passing, m) :
                /\ \A p \in 1..m : R[p] = T[a[p]]
                /\ IF "rating" \in players_df.cols
                   THEN /\ \A p \in 1..(m - 1) : GE(T[a[p]]["rating"], T[a[p + 1]]["rating"])
                        /\ \A i \in Passing : Out(a, i) =>
                               \A p \in 1..m : GE(T[a[p]]["rating"], T[i]["rating"])
                   ELSE /\ \A p \in 1..(m - 1) : a[p] < a[p + 1]
                        /\ \A i \in Passing : Out(a, i) => \A p \in 1..m : a[p] < i

\* a query has returned fewer rows than pass, and the first of them is not the
\* first row of the table
C8_Witness ==
    /\ call.op = "recommend_by_criteria"
    /\ Ready(emitted)
    /\ "rating" \in players_df.cols
    /\ Len(Result(emitted).rows) = call.n
    /\ Cardinality(Passing) > call.n
    /\ Result(emitted).rows[1] # players_df.rows[1]

\* C9: recommend_by_criteria emits an error and no result before a table is
\* loaded, and a result and no error once one is, in every state of the engine.
C9_CriteriaQueryAnswered ==
    call.op = "recommend_by_criteria" =>
        IF players_df = NoneObj
        THEN Failed(emitted) /\ ~Ready(emitted)
        ELSE Ready(emitted) /\ ~Failed(emitted)

\* C10: a similarity query issued while knn_model is None whose training fails
\* emits an error and no recommendation_ready.
C10_FailedLazyTrainingNoResult ==
    [][(/\ call'.op = "recommend_similar_players"
        /\ knn_model = NoneObj
        /\ \/ preprocess_data(Recommender).X = NoneObj
           \/ \E p \in 1..Len(emitted') :
                  emitted'[p].msg = "Error training recommendation models") =>
           /\ Failed(emitted')
           /\ ~Ready(emitted')]_vars


\* the table the recommender holds passes preprocess_data
Trainable == preprocess_data(Recommender).X # NoneObj

\* the signals e hold a processing_complete
CompletesLoad(e) == \E p \in 1..Len(e) : e[p].sig = "processing_complete"

\* C11: after every load that reaches on_data_processed a train_models of the
\* timer eventually runs with no timer left pending, and that last training is on
\* the table loaded last: when that table is the one of the load, passes
\* preprocess_data and no fit raises, the engine is Trained on it.
C11_LoadLeadsToTraining ==
    (call.op = "on_data_fetched" /\ CompletesLoad(emitted)) ~>
        (/\ call.op = "train_models"
         /\ timers = 0
         /\ (shared /\ Trainable /\ call.fail = "none") => Trained)

\* two loads, each with its timer, and the training that ran last has fitted the
\* models on the table of the second
C11_Witness ==
    /\ call.op = "train_models"
    /\ call.fail = "none"
    /\ loads = MaxLoads
    /\ timers = 0
    /\ shared
    /\ Len(players_df.rows) = 2
    /\ Trained

\* C12: a train_models starts only when no other train_models of the recommender
\* has started and not yet returned.
C12_TrainingsNeverOverlap ==
    [][(call'.op = "train_models" /\ timers' < timers) => in_flight = 0]_vars

\* C13: the preprocess_data of a train_models on a non-empty table emits the
\* insufficient-features error exactly when fewer than MinFeatures of the
\* FeatureColumns are columns of the table; with MinFeatures or more it returns a
\* matrix with a row per table row and a column per present feature column, with
\* the present columns in the order of the list; and when it fails, the scaler and
\* the models are left as they were.
C13_PreprocessOutcome ==
    [][(/\ call'.op = "train_models"
        /\ timers' < timers
        /\ players_df # NoneObj
        /\ Len(players_df.rows) > 0) =>
           LET pre == preprocess_data(Recommender)
               existing_columns == ExistingColumns(players_df)
               insufficient == \E p \in 1..Len(pre.emitted) :
                   pre.emitted[p].msg = "Insufficient features for recommendation"
           IN /\ insufficient <=> Len(existing_columns) < MinFeatures
              /\ Len(existing_columns) >= MinFeatures =>
                     /\ pre.X # NoneObj
                     /\ DOMAIN pre.X.values = Indices(players_df)
                     /\ \A i \in Indices(players_df) :
                            Len(pre.X.values[i]) = Len(existing_columns)
                     /\ pre.features = existing_columns
              /\ pre.X = NoneObj =>
                     /\ scaler' = scaler
                     /\ knn_model' = knn_model
                     /\ kmeans_model' = kmeans_model]_vars

\* the statistics of a stint that process_players_data reads from the API record
StatisticColumns ==
    {"appearances", "minutes_played", "rating", "shots_total", "shots_on_target",
     "goals_total", "assists", "passes_total", "passes_accuracy", "tackles_total",
     "tackles_blocks", "tackles_interceptions", "duels_total", "duels_won"}

\* C14: after a load (process_players_data, then calculate_player_metrics on its
\* table), every statistic of every row of the table is a number, 0 where the raw
\* record had none: never None, NaN or a string.
C14_StatisticsAreNumbers ==
    (call.op = "on_data_fetched" /\ CompletesLoad(emitted)) =>
        \A i \in Indices(dp_players_df) : \A c \in StatisticColumns \cap dp_players_df.cols :
            IsNum(dp_players_df.rows[i][c])

\* C15: in every row calculate_player_metrics produces from counters that are
\* non-negative integers, shot_conversion_rate and duels_success_rate are between
\* 0 and 100, and 0 when shots_total, respectively duels_total, is 0.
C15_RatesWithinPercent ==
    call.op = "calculate_player_metrics" =>
        \A i \in Indices(dp_players_df) :
            LET row == dp_players_df.rows[i]
                Percent(rate) == GE(rate, Num(0)) /\ LE(rate, Num(100))
            IN /\ Percent(row["shot_conversion_rate"])
               /\ Percent(row["duels_success_rate"])
               /\ row["shots_total"] = Num(0) => row["shot_conversion_rate"] = Num(0)
               /\ row["duels_total"] = Num(0) => row["duels_success_rate"] = Num(0)

\* the statistics blocks of the players before the p-th of the response
RECURSIVE BlocksBefore(_, _)
BlocksBefore(players, p) ==
    IF p = 1 THEN 0
    ELSE BlocksBefore(players, p - 1) + Len(players[p - 1].statistics)

\* C16: the table process_players_data builds has one row per (player, statistics
\* block) pair and no other, in the order of the response: the b-th block of the
\* p-th player is the row after those of the blocks before it, with the id of the
\* player and the appearances of the block, also when the player or the
\* statistics occur more than once.
C16_RowPerStint ==
    (call.op = "on_data_fetched" /\ CompletesLoad(emitted)) =>
        LET players == call.data
            rows == dp_players_df.rows
        IN /\ Len(rows) = BlocksBefore(players, Len(players) + 1)
           /\ \A p \in 1..Len(players) : \A b \in 1..Len(players[p].statistics) :
                  LET row == rows[BlocksBefore(players, p) + b]
                  IN /\ row["player_id"] = players[p].player.id
                     /\ row["appearances"] = players[p].statistics[b].games.appearances

\* a response of two players, the first with two blocks, has given three rows,
\* two of them with the id of the first player
C16_Witness ==
    /\ call.op = "on_data_fetched"
    /\ CompletesLoad(emitted)
    /\ Len(call.data) = 2
    /\ Len(call.data[1].statistics) = 2
    /\ Len(dp_players_df.rows) = 3
    /\ dp_players_df.rows[1]["player_id"] = dp_players_df.rows[2]["player_id"]

\* C17: process_players_data on a response without entries emits
\* processing_error and no processing_complete and leaves the table the
\* DataProcessor holds as it was.
C17_EmptyResponseRejected ==
    [][(call'.op = "on_data_fetched" /\ call'.data = <<>>) =>
           /\ \E p \in 1..Len(emitted') : emitted'[p].sig = "processing_error"
           /\ ~CompletesLoad(emitted')
           /\ dp_players_df' = dp_players_df]_vars

\* an empty response has arrived after a load, and the table of that load is
\* still the one held
C17_Witness ==
    /\ call.op = "on_data_fetched"
    /\ call.data = <<>>
    /\ loads = MaxLoads
    /\ dp_players_df # NoneObj
    /\ Len(dp_players_df.rows) = 3

\* the key of the item is neither position nor min_<metric> nor max_<metric>
Malformed(item) ==
    /\ item.prefix \notin {"min_", "max_"}
    /\ ~(item.prefix = "" /\ item.metric = "position")

\* the item is a threshold whose value is given and is not a number
NonNumeric(item) ==
    /\ item.prefix \in {"min_", "max_"}
    /\ item.value # None
    /\ ~IsNum(item.value)

\* C18: a criteria query with a malformed key, or with a threshold that is not a
\* number, emits an error and no recommendation_ready.
C18_MalformedCriteriaRejected ==
    (/\ call.op = "recommend_by_criteria"
     /\ \E p \in 1..Len(call.criteria) :
            Malformed(call.criteria[p]) \/ NonNumeric(call.criteria[p])) =>
        Failed(emitted) /\ ~Ready(emitted)

\* the item is a threshold on a column the table does not have
MissingColumn(item) ==
    item.prefix \in {"min_", "max_"} /\ item.metric \notin players_df.cols

\* the criteria without the thresholds on columns the table does not have
WithoutMissing(criteria) ==
    LET Kept(item) == ~MissingColumn(item) IN SelectSeq(criteria, Kept)

\* the last call was a criteria query on a table, with a threshold on a column the
\* table does not have
QueryWithMissingColumn ==
    /\ call.op = "recommend_by_criteria"
    /\ players_df # NoneObj
    /\ \E p \in 1..Len(call.criteria) : MissingColumn(call.criteria[p])

\* C19: a criteria query with a min_/max_ key whose column the table does not have
\* emits what the query without that key emits: the key changes no result and
\* brings no error (an error is emitted only where the query without the key
\* emits it too).
C19_MissingColumnIgnored ==
    QueryWithMissingColumn =>
        /\ emitted \in recommend_by_criteria(Recommender, WithoutMissing(call.criteria), call.n)
        /\ recommend_by_criteria(Recommender, call.criteria, call.n)
               = recommend_by_criteria(Recommender, WithoutMissing(call.criteria), call.n)

\* a query with min_sprints and max_rating on a table without a sprints column
\* has returned the rows within max_rating, and they are not all rows
C19_Witness ==
    /\ QueryWithMissingColumn
    /\ Len(call.criteria) = 2
    /\ Ready(emitted)
    /\ Len(players_df.rows) = 3
    /\ Len(Result(emitted).rows) = 2

\* the recommender with the cluster column of its table replaced by each of the
\* labelings KMeans can give the table: the engine states that differ from the
\* current one in the cluster column only
Relabelled ==
    LET X == preprocess_data(Recommender).X
    IN {[Recommender EXCEPT
           !.players_df = SetColumn(players_df, "cluster",
                              Eager([i \in Indices(players_df) |-> Num(labels[i])]))]
        : labels \in ClusterLabelings(X, Min(MaxClusters, Len(X.values)))}

\* two frames have the same rows in the same order, the cluster column aside
SameRows(a, b) ==
    Project(a, a.cols \ {"cluster"}).rows = Project(b, b.cols \ {"cluster"}).rows

\* C20: the rows a query has returned on a table with cluster labels, and their
\* order, are rows and order the same query returns in every engine state that
\* differs in the cluster column only, for similarity and for criteria queries.
C20_ClusterLabelsDoNotInfluence ==
    (/\ call.op \in {"recommend_similar_players", "recommend_by_criteria"}
     /\ Ready(emitted)
     /\ "cluster" \in players_df.cols) =>
        \A other \in Relabelled :
            IF call.op = "recommend_by_criteria"
            THEN \E e \in recommend_by_criteria(other, call.criteria, call.n) :
                     Ready(e) /\ SameRows(Result(e), Result(emitted))
            ELSE \E out \in recommend_similar_players(other, call.player_id, call.n, "none") :
                     Ready(out.emitted) /\ SameRows(Result(out.emitted), Result(emitted))

\* the signals e hold a model_trained
ModelTrained(e) == \E p \in 1..Len(e) : e[p].sig = "model_trained"

\* the table the recommender holds has a cluster column
Labelled == players_df # NoneObj /\ "cluster" \in players_df.cols

\* C21: a handler in which train_models succeeds leaves in every row of the table
\* an integer cluster label from 0 to min(MaxClusters, rows) - 1; a load leaves a
\* table without cluster labels, and a table without them gets them only by a
\* train_models that succeeds.
C21_ClusterLabelsOnlyAfterTraining ==
    [][/\ ModelTrained(emitted') =>
              /\ Labelled'
              /\ \A i \in Indices(players_df') :
                     LET label == players_df'.rows[i]["cluster"]
                     IN /\ IsNum(label)
                        /\ label.d = 1
                        /\ label.n \in 0..(Min(MaxClusters, Len(players_df'.rows)) - 1)
       /\ (call'.op = "set_data" \/ (call'.op = "on_data_fetched" /\ CompletesLoad(emitted')))
              => ~Labelled'
       /\ (Labelled' /\ ~Labelled) => ModelTrained(emitted')]_vars

\* the timer training of a table of three rows has succeeded and the rows do
\* not all carry the same label
C21_Witness ==
    /\ call.op = "train_models"
    /\ ModelTrained(emitted)
    /\ Len(players_df.rows) = 3
    /\ players_df.rows[1]["cluster"] # players_df.rows[3]["cluster"]

\* the squared distance, in the standardized matrix of the table the recommender
\* holds, of row i to the row of the reference player of the last query
DistanceToReference(i) ==
    LET X == preprocess_data(Recommender).X
        reference == CHOOSE r \in Indices(players_df) :
                         /\ players_df.rows[r]["player_id"] = Num(call.player_id)
                         /\ \A j \in Indices(players_df) :
                                players_df.rows[j]["player_id"] = Num(call.player_id) => r <= j
    IN Distance2(X.values[reference], X.values[i], X.var)

\* the rows of the table that the p-th row of the result can be a copy of
SourceRows(p) ==
    {i \in Indices(players_df) :
        \A c \in players_df.cols : Result(emitted).rows[p][c] = players_df.rows[i][c]}

\* C22: the rows of the result of a similarity query come in order of
\* non-decreasing distance to the row of the reference player, their
\* similarity_score = 1 / (1 + distance) is the score of that distance, so
\* non-increasing, and every score is above 0 and at most 1.
C22_OrderedByDistance ==
    (call.op = "recommend_similar_players" /\ Ready(emitted)) =>
        LET R == Result(emitted).rows
        IN /\ \A p \in 1..Len(R) :
                  \E i \in SourceRows(p) :
                      /\ R[p]["similarity_score"] = Score(DistanceToReference(i))
                      /\ GE(DistanceToReference(i), Num(0))
           /\ \A p \in 1..(Len(R) - 1) :
                  \E i \in SourceRows(p), j \in SourceRows(p + 1) :
                      GE(DistanceToReference(j), DistanceToReference(i))

\* the columns calculate_player_metrics adds
MetricColumns ==
    {"minutes_per_appearance", "pass_completion_rate", "shot_conversion_rate",
     "duels_success_rate"}

\* C23: after a load that on_data_processed handles, the table of the recommender
\* (with rows) is the table update_dashboard has enriched: it has the columns
\* calculate_player_metrics derives, so that a threshold on one of them finds its
\* column.
C23_RecommenderHoldsEnrichedTable ==
    (/\ call.op = "on_data_fetched"
     /\ CompletesLoad(emitted)
     /\ Len(players_df.rows) > 0) =>
        /\ players_df = dp_players_df
        /\ MetricColumns \subseteq players_df.cols

\* the notification a train_models owes: model_trained when the table passes
\* preprocess_data and no fit raises, error_occurred otherwise
Notification(fail) ==
    IF Trainable /\ fail = "none" THEN "model_trained" ELSE "error_occurred"

\* C24: a train_models emits exactly one signal, model_trained when the fit has
\* succeeded and error_occurred when it has not: the one signal of a training the
\* timer starts, and the first signal of a query that trains, which emits
\* model_trained no second time.
C24_OneTrainingNotification ==
    [][/\ (call'.op = "train_models" /\ timers' < timers) =>
              /\ Len(emitted') = 1
              /\ emitted'[1].sig = Notification(call'.fail)
       /\ (call'.op = "recommend_similar_players" /\ knn_model = NoneObj) =>
              /\ Len(emitted') >= 1
              /\ emitted'[1].sig = Notification(call'.fail)
              /\ \A p \in 2..Len(emitted') : emitted'[p].sig # "model_trained"]_vars

\* a training of the timer whose KMeans fit has raised has emitted its one error
C24_Witness ==
    /\ call.op = "train_models"
    /\ call.fail = "kmeans_fit"
    /\ emitted = <<Signal("error_occurred", "Error training recommendation models", NoneObj)>>

\* C25: in every row calculate_player_metrics produces, minutes_per_appearance
\* is minutes_played / appearances when appearances is above 0, and 0 when it is
\* not, whatever minutes_played is.
C25_MinutesPerAppearance ==
    call.op = "calculate_player_metrics" =>
        \A i \in Indices(dp_players_df) :
            LET row == dp_players_df.rows[i]
            IN row["minutes_per_appearance"] =
                   IF GT(row["appearances"], Num(0))
                   THEN Divide(row["minutes_played"], row["appearances"])
                   ELSE Num(0)

\* the metrics of a row with minutes played and no appearance, and of a row with
\* appearances, have been calculated
C25_Witness ==
    /\ call.op = "calculate_player_metrics"
    /\ dp_players_df.rows[1]["appearances"] = Num(0)
    /\ dp_players_df.rows[1]["minutes_played"] = Num(2)
    /\ dp_players_df.rows[1]["minutes_per_appearance"] = Num(0)
    /\ dp_players_df.rows[2]["minutes_per_appearance"] = Num(1)

\* C26: get_player_by_id returns the first row of the table, in table order,
\* whose player_id is the argument, and None when the table has no such row or
\* no table is loaded; the table is left as it is.
C26_FirstMatchingRowOrNone ==
    [][call'.op = "get_player_by_id" =>
           LET rows == IF dp_players_df = NoneObj THEN <<>> ELSE dp_players_df.rows
               matching == {i \in 1..Len(rows) : rows[i]["player_id"] = Num(call'.player_id)}
           IN /\ dp_players_df' = dp_players_df
              /\ call'.returned =
                     IF matching = {} THEN NoneObj
                     ELSE rows[CHOOSE i \in matching : \A j \in matching : i <= j]]_vars

\* C29: calculate_player_metrics called without a frame while no table is loaded
\* emits processing_error "No player data available for metrics calculation" and
\* returns None; it does not raise.
C29_NoTableReported ==
    [][(call'.op = "calculate_player_metrics" /\ dp_players_df = NoneObj) =>
           /\ call'.returned = NoneObj
           /\ emitted' = <<Signal("processing_error",
                                  "No player data available for metrics calculation",
                                  NoneObj)>>]_vars

\* the signals of a call that tell the caller how it ended
Outcomes(e) ==
    {p \in DOMAIN e : e[p].sig \in {"recommendation_ready", "error_occurred"}}

\* C27: every call of recommend_similar_players emits exactly one outcome
\* signal, one recommendation_ready or one error_occurred: never both, never
\* two errors, never none, also when the call trains lazily and the training
\* fails.
C27_OneQueryOutcome ==
    [][call'.op = "recommend_similar_players" =>
           Cardinality(Outcomes(emitted')) = 1]_vars

\* the columns of a frame, none for None
ColumnsOf(df) == IF df = NoneObj THEN {} ELSE df.cols

\* C28: recommend_by_criteria, ending in a result or in an error, leaves the
\* table (rows, row order, columns), both models, the scaler and the feature
\* columns as they were; no query of either mode adds a similarity_score column
\* to the table, and no criteria result carries one.
C28_CriteriaQueryReadOnly ==
    [][/\ call'.op = "recommend_by_criteria" =>
              /\ UNCHANGED <<players_df, knn_model, kmeans_model, scaler, feature_columns>>
              /\ Ready(emitted') => "similarity_score" \notin Result(emitted').cols
       /\ call'.op \in {"recommend_by_criteria", "recommend_similar_players"} =>
              "similarity_score" \notin ColumnsOf(players_df')]_vars

\* a criteria query answered with rows by a trained engine whose last
\* similarity query could have been answered as well
C28_Witness ==
    /\ call.op = "recommend_by_criteria"
    /\ Ready(emitted)
    /\ Len(Result(emitted).rows) > 0
    /\ Len(Result(emitted).rows) < Len(players_df.rows)
    /\ Trained

\* the positions in e of the signals named in names
Emitted(e, names) == {p \in DOMAIN e : e[p].sig \in names}

\* label_status once the slots of the signals in e have run
label_status(e) ==
    LET set == Emitted(e, {"request_started", "request_finished"})
        last == CHOOSE p \in set : \A q \in set : q <= p
    IN IF set = {} THEN "Ready"
       ELSE IF e[last].sig = "request_started" THEN "Loading data..." ELSE "Ready"

\* C30: a fetch_data call emits request_started once and first, request_finished
\* once and last, and exactly one of data_fetched and error_occurred between
\* them, in real and in mock mode, on success and on a failed request; the
\* status does not stay at "Loading data..." once the call has returned.
C30_FetchSignalsBracketed ==
    call.op = "fetch_data" =>
        /\ Emitted(emitted, {"request_started"}) = {1}
        /\ Emitted(emitted, {"request_finished"}) = {Len(emitted)}
        /\ Cardinality(Emitted(emitted, {"data_fetched", "error_occurred"})) = 1
        /\ Emitted(emitted, {"data_fetched", "error_occurred"}) \subseteq 2..(Len(emitted) - 1)
        /\ label_status(emitted) = "Ready"

\* a request has failed after an earlier fetch delivered players
C30_Witness ==
    /\ call.op = "fetch_data"
    /\ ~call.use_mock_data
    /\ call.response.raised
    /\ players_df # NoneObj
====
